---- MODULE Spec2Model ----
(***************************************************************************)
(* A model of the metadata aggregation core of xiv3r/Exif                  *)
(* (src/core/metadata_aggregator.py, src/core/data_models.py) and of its   *)
(* store (src/core/data_storage.py).                                       *)
(*                                                                         *)
(* Spec       the batch orchestrator: MetadataAggregator.process_batch     *)
(*            fanning file paths out over a ThreadPoolExecutor and         *)
(*            collecting the futures with as_completed.                    *)
(*                                                                         *)
(* SpecTwoRuns the same, run twice over one file_list with different       *)
(*            max_workers.                                                 *)
(* SpecImage  one call of MetadataAggregator._process_image, field by      *)
(*            field, with _extract_gps_from_tags.                          *)
(* SpecDetect MetadataAggregator.detect_file_type applied to one path.     *)
(* SpecScan   MetadataAggregator.scan_directory called twice on one        *)
(*            directory tree.                                              *)
(* SpecTags   _process_audio and _process_document on one file.            *)
(* SpecOnce   one process_batch call on a new aggregator.                  *)
(* SpecLive   SpecOnce under the scheduling of the thread pool (fairness). *)
(* SpecProgress SpecOnce with the progress bar shown or not.               *)
(* SpecReuse  process_file and process_batch called again and again on one *)
(*            aggregator.                                                  *)
(* SpecConcurrent two overlapping process_batch calls on one aggregator.   *)
(* SpecDb     MetadataDatabase (src/core/data_storage.py): insert_file,    *)
(*            insert_batch, delete_file. SpecInsert: the inserts only.     *)
(*                                                                         *)
(* Modelling conventions                                                   *)
(*   - an Optional value is a sequence: <<>> is None, <<v>> is v;          *)
(*   - every exception is a subclass of Exception (what `except Exception` *)
(*     catches); print never raises;                                       *)
(*   - list.append is one atomic step (the interpreter lock);              *)
(*   - a float is the rational it stands for, [num, den] with den > 0;      *)
(*   - a str is a TLA+ string, taken apart with Len and SubSeq and put     *)
(*     together with \o.                                                   *)
(***************************************************************************)
EXTENDS Integers, Sequences, FiniteSets, TLC

(***************************************************************************)
(* Bounds of the model.                                                    *)
(***************************************************************************)
MaxFiles == 3      \* longest file_list handed to process_batch
MaxWorkers == 3    \* largest max_workers handed to process_batch
MaxIrregular == 2  \* most EXIF tags of one image that are absent or malformed

(***************************************************************************)
(* Strings.                                                                *)
(***************************************************************************)
Char(s, i) == SubSeq(s, i, i)

LowerCase == "abcdefghijklmnopqrstuvwxyz"
UpperCase == "ABCDEFGHIJKLMNOPQRSTUVWXYZ"

\* The characters of the paths of this model, by ascending code point.
CodePoints == "./0123456789" \o UpperCase \o "_" \o LowerCase

\* The position of character c in `alphabet`, 0 when it is not there.
IndexIn(c, alphabet) ==
    IF \E i \in 1..Len(alphabet) : Char(alphabet, i) = c
    THEN CHOOSE i \in 1..Len(alphabet) : Char(alphabet, i) = c
    ELSE 0

Characters(alphabet) == {Char(alphabet, i) : i \in 1..Len(alphabet)}

\* The letter tables of str.lower() and str.upper(), the code point order.
ToLower == [c \in Characters(UpperCase) |-> Char(LowerCase, IndexIn(c, UpperCase))]
ToUpper == [c \in Characters(LowerCase) |-> Char(UpperCase, IndexIn(c, LowerCase))]
CodePoint == [c \in Characters(CodePoints) |-> IndexIn(c, CodePoints)]

RECURSIVE MapChars(_, _)
MapChars(s, table) ==
    IF Len(s) = 0 THEN s
    ELSE (IF Head(s) \in DOMAIN table THEN table[Head(s)] ELSE Head(s))
             \o MapChars(Tail(s), table)

\* str.lower(), str.upper()
Lower(e) == MapChars(e, ToLower)
Upper(e) == MapChars(e, ToUpper)

\* str.rfind(c), counting from 1: 0 when c does not occur
RECURSIVE RFind(_, _)
RFind(s, c) ==
    IF Len(s) = 0 THEN 0
    ELSE IF Char(s, Len(s)) = c THEN Len(s)
    ELSE RFind(SubSeq(s, 1, Len(s) - 1), c)

\* Path(p).name: the last component
Name(p) == SubSeq(p, RFind(p, "/") + 1, Len(p))

\* Path(p).parent
Parent(p) == SubSeq(p, 1, RFind(p, "/") - 1)

\* Path(file_path).suffix: from the last dot of the name on, unless that dot
\* opens or ends the name.
Suffix(p) ==
    LET name == Name(p)
        i == RFind(name, ".")
    IN  IF 1 < i /\ i < Len(name) THEN SubSeq(name, i, Len(name)) ELSE ""

Range(seq) == {seq[k] : k \in 1..Len(seq)}

(***************************************************************************)
(* The files the batch is run over.                                        *)
(***************************************************************************)
Paths == {"a.JPG", "c.dat"}

Categories == {"image", "video", "audio", "document"}

\* The order of the dict's keys.
CategoryOrder == <<"image", "video", "audio", "document">>

SUPPORTED_EXTENSIONS ==
    [c \in Categories |->
        CASE c = "image"    -> <<".jpg", ".jpeg", ".png", ".gif", ".bmp", ".tiff", ".tif">>
          [] c = "video"    -> <<".mp4", ".avi", ".mov", ".mkv", ".wmv", ".flv", ".webm">>
          [] c = "audio"    -> <<".mp3", ".wav", ".flac", ".aac", ".ogg", ".m4a", ".wma">>
          [] c = "document" -> <<".pdf", ".docx">>]

\* The first category of the dict whose list holds ext, "unknown" when none
\* does.
CategoryOf(ext) ==
    LET hits == {k \in 1..Len(CategoryOrder) :
                    ext \in Range(SUPPORTED_EXTENSIONS[CategoryOrder[k]])}
    IN  IF hits = {} THEN "unknown"
        ELSE CategoryOrder[CHOOSE k \in hits : \A j \in hits : k <= j]

\* Mutant: the extension is compared as it is spelled.
detect_file_type_case_sensitive(file_path) == CategoryOf(Suffix(file_path))

detect_file_type(file_path) == CategoryOf(Lower(Suffix(file_path)))

(***************************************************************************)
(* What the environment does to a file while it is processed:              *)
(*   ok          the file is read and decoded;                             *)
(*   corrupt     the base fields (stat, MIME) are read, the decoding       *)
(*               backend (exifread, PIL, moviepy, eyed3, pdfplumber, docx) *)
(*               raises;                                                   *)
(*   unreadable  reading the base fields raises (os.path.getsize, magic);  *)
(*   fault       the task's future ends holding an exception that          *)
(*               process_file did not convert (future.result() raises).    *)
(***************************************************************************)
Conditions == {"ok", "corrupt", "unreadable", "fault"}

VARIABLES
    cond,          \* environment: path -> condition
    file_list,     \* process_batch argument
    max_workers,   \* process_batch argument
    pc,            \* main thread: "idle" | "submit" | "collect" | "done"
    submitted,     \* number of tasks handed to executor.submit so far
    task,          \* task index -> "unsubmitted" | "queued" | "running" | "finished"
    future,        \* task index -> <<>> (not done) or <<[exc, value]>>
    collected,     \* task indices as_completed has yielded so far
    results,       \* self.results
    errors,        \* self.errors
    successful,    \* local of process_batch
    failed,        \* local of process_batch
    progress,      \* progress_bar.n
    ret,           \* <<>> or <<BatchProcessResult>> returned by the last call
    prev,          \* <<>> or <<what an earlier run over the same input ended with>>
    tags,          \* _process_image: what exifread.process_file returns
    exif_raises,   \* _process_image: whether exifread.process_file raises
    pil_ok,        \* _process_image: whether Image.open succeeds
    img_pc,        \* _process_image: "idle", "exif", a field of FieldOrder, "pil", "done"
    metadata,      \* _process_image: key -> <<>> (no such key) or <<value>>
    gps_data,      \* _process_image: <<>> or <<what _extract_gps_from_tags returned>>
    det_path,      \* detect_file_type: its argument
    det_type,      \* detect_file_type: <<>> or <<what it returned>>
    fs,            \* scan_directory: the files of the directory tree
    case_sensitive,\* scan_directory: whether the path flavour matches names by case
    listing,       \* scan_directory: the order the directories are listed in
    path,          \* scan_directory argument
    recursive,     \* scan_directory argument
    file_types,    \* scan_directory argument: <<>> (None) or <<list of names>>
    scan_pc,       \* scan_directory: "idle", "call", "glob", "sort", "done", "raised"
    files,         \* scan_directory: the local list the glob results are added to
    scan_exc,      \* scan_directory: <<>> or <<the class of the exception raised>>
    scan_ret,      \* scan_directory: <<>> or <<the list returned>>
    scan_prev,     \* <<>> or <<what an earlier scan of the same tree returned>>
    ext_in,        \* _process_audio, _process_document: what the backend delivers
    ext_md,        \* _process_audio, _process_document: key -> <<>> (no such key) or <<value>>
    ext_pc,        \* _process_audio, _process_document: "idle", "call", "done"
    show_progress, \* process_batch argument
    other,         \* a second process_batch call on the same aggregator: [pc, file_path]
    foreign_keys,  \* whether the SQLite connection enforces foreign keys
    db,            \* the committed database: [files, meta, seq]
    db_call        \* <<>> or <<the last MetadataDatabase call: its arguments and outcome>>

batch_vars == <<cond, file_list, max_workers, pc, submitted, task, future, collected,
                results, errors, successful, failed, progress, ret, prev>>

image_vars == <<tags, exif_raises, pil_ok, img_pc, metadata, gps_data>>

detect_vars == <<det_path, det_type>>

scan_vars == <<fs, case_sensitive, listing, path, recursive, file_types, scan_pc,
               files, scan_exc, scan_ret, scan_prev>>

tag_vars == <<ext_in, ext_md, ext_pc>>

caller_vars == <<show_progress, other>>

db_vars == <<foreign_keys, db, db_call>>

vars == <<batch_vars, image_vars, detect_vars, scan_vars, tag_vars, caller_vars, db_vars>>

(***************************************************************************)
(* The extractors, seen from process_file: each returns a record or        *)
(* raises.  A record holds the seven base fields, and `extracted` tells    *)
(* whether the decoding backend delivered the category-specific fields.    *)
(* file_path and file_type are literals of the dict; the other base        *)
(* fields are Optional values.                                             *)
(***************************************************************************)
Returned(v) == [raised |-> FALSE, value |-> <<v>>]
Raised == [raised |-> TRUE, value |-> <<>>]

\* The base fields: os.path.getsize, self.mime.from_file, getctime, getmtime
\* are evaluated while the dict literal is built, outside every try.
BaseFieldsRaise(file_path) == cond[file_path] = "unreadable"

\* Mutant: a base field whose call fails is stored as None.
base_fields_lenient(file_path, file_type) ==
    LET got(v) == IF BaseFieldsRaise(file_path) THEN <<>> ELSE <<v>>
    IN  Returned([file_path |-> file_path,
                  file_name |-> <<Name(file_path)>>,
                  file_type |-> file_type,
                  file_size |-> got("int"),
                  mime_type |-> got("str"),
                  created_date |-> got("datetime"),
                  modified_date |-> got("datetime")])

\* Lines 188-196, 304-312, 337-345, 376-384, 438-446: the dict literal of
\* the base fields; it raises when one of its calls raises.
base_fields(file_path, file_type) ==
    IF BaseFieldsRaise(file_path)
    THEN Raised
    ELSE Returned([file_path |-> file_path,
                   file_name |-> <<Name(file_path)>>,
                   file_type |-> file_type,
                   file_size |-> <<"int">>,
                   mime_type |-> <<"str">>,
                   created_date |-> <<"datetime">>,
                   modified_date |-> <<"datetime">>])

\* The dict with or without the keys the backend adds.
Record(b, x) ==
    [file_path |-> b.file_path, file_name |-> b.file_name, file_type |-> b.file_type,
     file_size |-> b.file_size, mime_type |-> b.mime_type,
     created_date |-> b.created_date, modified_date |-> b.modified_date,
     extracted |-> x]

\* Mutant: the backend's exception is not caught inside the extractor.
_process_supported_propagating(file_path, file_type) ==
    LET b == base_fields(file_path, file_type)
    IN  IF b.raised \/ cond[file_path] = "corrupt"
        THEN Raised
        ELSE Returned(Record(b.value[1], TRUE))

\* _process_image, _process_video, _process_audio, _process_document: the
\* backend is called inside try/except Exception, which only prints a warning.
_process_supported(file_path, file_type) ==
    LET b == base_fields(file_path, file_type)
    IN  IF b.raised
        THEN Raised
        ELSE Returned(Record(b.value[1], cond[file_path] = "ok"))

\* _process_generic: base fields only, no backend.
_process_generic(file_path) ==
    LET b == base_fields(file_path, "unknown")
    IN  IF b.raised
        THEN Raised
        ELSE Returned(Record(b.value[1], FALSE))

ErrorEntry(file_path, kind) == [file |-> file_path, type |-> kind]

\* Mutant: process_file without its try/except, the exception reaches the future.
process_file_no_try(file_path) ==
    LET file_type == detect_file_type(file_path)
        r == IF file_type \in Categories
             THEN _process_supported(file_path, file_type)
             ELSE _process_generic(file_path)
    IN  [exc |-> r.raised, value |-> r.value, appended |-> <<>>]

\* Mutant: every file is handed to the image extractor.
process_file_always_image(file_path) ==
    LET r == _process_supported(file_path, "image")
    IN  IF r.raised
        THEN [exc |-> FALSE, value |-> <<>>,
              appended |-> <<ErrorEntry(file_path, "processing_error")>>]
        ELSE [exc |-> FALSE, value |-> r.value, appended |-> <<>>]

\* process_file: what it returns and what it appends to self.errors.
process_file(file_path) ==
    LET file_type == detect_file_type(file_path)
        r == IF file_type \in Categories
             THEN _process_supported(file_path, file_type)
             ELSE _process_generic(file_path)
    IN  IF r.raised
        THEN [exc |-> FALSE, value |-> <<>>,
              appended |-> <<ErrorEntry(file_path, "processing_error")>>]
        ELSE [exc |-> FALSE, value |-> r.value, appended |-> <<>>]

\* The work item of executor.submit(self.process_file, file_path): the future
\* ends with process_file's return value, or with an exception.
RunTask(file_path) ==
    IF cond[file_path] = "fault"
    THEN [exc |-> TRUE, value |-> <<>>, appended |-> <<>>]
    ELSE process_file(file_path)

(***************************************************************************)
(* process_batch                                                           *)
(***************************************************************************)
N == Len(file_list)
Tasks == 1..N
Running == {i \in Tasks : task[i] = "running"}
Queued == {i \in Tasks : task[i] = "queued"}
InCall == pc \in {"submit", "collect"}

BatchProcessResult(total, succ, fail, errs) ==
    [total_files |-> total, successful |-> succ, failed |-> fail, errors |-> errs]

Abs(x) == IF x < 0 THEN -x ELSE x

\* round(a / b) for a >= 0, b > 0, ties to the even neighbour, as Python's
\* round does.
RoundHalfEven(a, b) ==
    LET q == a \div b
        r == a % b
    IN  IF 2 * r < b THEN q
        ELSE IF 2 * r > b THEN q + 1
        ELSE IF q % 2 = 0 THEN q ELSE q + 1

\* Mutant: the rate is cut to two decimals instead of rounded.
success_rate_truncated(r) ==
    IF r.total_files = 0 THEN 0
    ELSE (r.successful * 10000) \div r.total_files

\* BatchProcessResult.success_rate in hundredths of a percent:
\* round((successful / total_files) * 100, 2) * 100.
success_rate(r) ==
    IF r.total_files = 0 THEN 0
    ELSE RoundHalfEven(r.successful * 10000, r.total_files)

RECURSIVE SeqsUpTo(_, _)
SeqsUpTo(S, n) ==
    IF n = 0 THEN {<<>>}
    ELSE LET shorter == SeqsUpTo(S, n - 1)
         IN  shorter \cup {Append(s, x) : s \in {t \in shorter : Len(t) = n - 1}, x \in S}

\* The keys of the dict _process_image builds beyond the base fields.
FieldOrder ==
    <<"width", "height", "camera_make", "camera_model", "lens_model", "focal_length",
      "aperture", "shutter_speed", "iso", "date_taken", "gps_coordinates">>
FieldKeys == {FieldOrder[k] : k \in 1..Len(FieldOrder)} \cup {"format"}

TagNames ==
    {"Image ImageWidth", "Image ImageLength", "Image Make", "Image Model",
     "EXIF LensModel", "EXIF FocalLength", "EXIF FNumber", "EXIF ExposureTime",
     "EXIF ISOSpeedRatings", "EXIF DateTimeOriginal", "GPS GPSLatitude",
     "GPS GPSLatitudeRef", "GPS GPSLongitude", "GPS GPSLongitudeRef",
     "GPS GPSAltitude"}

\* No _process_image call is under way.
ImageIdle ==
    /\ tags = [t \in TagNames |-> <<>>]
    /\ exif_raises = FALSE
    /\ pil_ok = TRUE
    /\ img_pc = "idle"
    /\ metadata = [k \in FieldKeys |-> <<>>]
    /\ gps_data = <<>>

\* MetadataAggregator.__init__: no batch has been run.
BatchIdle ==
    /\ file_list = <<>>
    /\ max_workers = 1
    /\ pc = "idle"
    /\ submitted = 0
    /\ task = <<>>
    /\ future = <<>>
    /\ collected = {}
    /\ results = <<>>
    /\ errors = <<>>
    /\ successful = 0
    /\ failed = 0
    /\ progress = 0
    /\ ret = <<>>
    /\ prev = <<>>

\* No detect_file_type call is under way.
DetectIdle ==
    /\ det_path = ""
    /\ det_type = <<>>

\* No scan_directory call is under way.
ScanIdle ==
    /\ fs = {}
    /\ case_sensitive = TRUE
    /\ listing = "ascending"
    /\ path = ""
    /\ recursive = TRUE
    /\ file_types = <<>>
    /\ scan_pc = "idle"
    /\ files = <<>>
    /\ scan_exc = <<>>
    /\ scan_ret = <<>>
    /\ scan_prev = <<>>

\* No _process_audio or _process_document call is under way.
TagIdle ==
    /\ ext_in = <<>>
    /\ ext_md = <<>>
    /\ ext_pc = "idle"

\* The caller asks for the progress bar (the default) and no other call is
\* under way on the aggregator.
CallerIdle ==
    /\ show_progress = TRUE
    /\ other = [pc |-> "idle", file_path |-> ""]

\* MetadataDatabase.__init__: the tables exist and are empty.
EmptyDb == [files |-> {}, meta |-> <<>>, seq |-> 0]

DbIdle ==
    /\ foreign_keys = FALSE
    /\ db = EmptyDb
    /\ db_call = <<>>

Init ==
    /\ cond \in [Paths -> Conditions]
    /\ BatchIdle
    /\ CallerIdle
    /\ DbIdle
    /\ ImageIdle
    /\ DetectIdle
    /\ ScanIdle
    /\ TagIdle

\* Mutant: the call does not reset self.results.
CallKeepingResults(fl, mw) ==
    /\ pc \in {"idle", "done"}
    /\ file_list' = fl
    /\ max_workers' = mw
    /\ results' = results
    /\ errors' = <<>>
    /\ successful' = 0
    /\ failed' = 0
    /\ progress' = 0
    /\ submitted' = 0
    /\ task' = [i \in 1..Len(fl) |-> "unsubmitted"]
    /\ future' = [i \in 1..Len(fl) |-> <<>>]
    /\ collected' = {}
    /\ ret' = <<>>
    /\ pc' = IF Len(fl) = 0 THEN "collect" ELSE "submit"
    /\ UNCHANGED <<cond, image_vars, detect_vars, scan_vars, tag_vars, caller_vars, db_vars>>

\* Mutant: the call does not reset self.errors.
CallKeepingErrors(fl, mw) ==
    /\ pc \in {"idle", "done"}
    /\ file_list' = fl
    /\ max_workers' = mw
    /\ results' = <<>>
    /\ errors' = errors
    /\ successful' = 0
    /\ failed' = 0
    /\ progress' = 0
    /\ submitted' = 0
    /\ task' = [i \in 1..Len(fl) |-> "unsubmitted"]
    /\ future' = [i \in 1..Len(fl) |-> <<>>]
    /\ collected' = {}
    /\ ret' = <<>>
    /\ pc' = IF Len(fl) = 0 THEN "collect" ELSE "submit"
    /\ UNCHANGED <<cond, image_vars, detect_vars, scan_vars, tag_vars, caller_vars, db_vars>>

\* Lines 465-477: the call resets the collectors and the counters.
Call(fl, mw) ==
    /\ pc \in {"idle", "done"}
    /\ file_list' = fl
    /\ max_workers' = mw
    /\ results' = <<>>
    /\ errors' = <<>>
    /\ successful' = 0
    /\ failed' = 0
    /\ progress' = 0
    /\ submitted' = 0
    /\ task' = [i \in 1..Len(fl) |-> "unsubmitted"]
    /\ future' = [i \in 1..Len(fl) |-> <<>>]
    /\ collected' = {}
    /\ ret' = <<>>
    /\ pc' = IF Len(fl) = 0 THEN "collect" ELSE "submit"
    /\ UNCHANGED <<cond, image_vars, detect_vars, scan_vars, tag_vars, caller_vars, db_vars>>

process_batch ==
    /\ \E fl \in SeqsUpTo(Paths, MaxFiles), mw \in 1..MaxWorkers : Call(fl, mw)
    /\ UNCHANGED prev

\* Lines 481-484: one executor.submit per element of file_list, in order.
Submit ==
    /\ pc = "submit"
    /\ submitted' = submitted + 1
    /\ task' = [task EXCEPT ![submitted + 1] = "queued"]
    /\ pc' = IF submitted + 1 = N THEN "collect" ELSE "submit"
    /\ UNCHANGED <<cond, file_list, max_workers, future, collected, results,
                   errors, successful, failed, progress, ret, prev,
                   image_vars, detect_vars, scan_vars, tag_vars, caller_vars, db_vars>>

\* Mutant: the pool starts a thread for every queued work item.
WorkerStartUnbounded(i) ==
    /\ i \in Queued
    /\ \A j \in Queued : i <= j
    /\ task' = [task EXCEPT ![i] = "running"]
    /\ UNCHANGED <<cond, file_list, max_workers, pc, submitted, future, collected,
                   results, errors, successful, failed, progress, ret, prev,
                   image_vars, detect_vars, scan_vars, tag_vars, caller_vars, db_vars>>

\* A pool thread takes the oldest queued work item; the pool has at most
\* max_workers threads.
WorkerStart(i) ==
    /\ i \in Queued
    /\ \A j \in Queued : i <= j
    /\ Cardinality(Running) < max_workers
    /\ task' = [task EXCEPT ![i] = "running"]
    /\ UNCHANGED <<cond, file_list, max_workers, pc, submitted, future, collected,
                   results, errors, successful, failed, progress, ret, prev,
                   image_vars, detect_vars, scan_vars, tag_vars, caller_vars, db_vars>>

\* Mutant: the append is a read-modify-write that loses the entries written
\* meanwhile by the other running tasks.
errors_append_racy(errs, appended) ==
    IF Cardinality(Running) > 1 /\ appended # <<>> THEN appended ELSE errs \o appended

\* Mutant: an append made while another task runs is written twice.
errors_append_twice(errs, appended) ==
    IF Cardinality(Running) > 1 THEN errs \o appended \o appended ELSE errs \o appended

\* self.errors.append({...}) in process_file's handler: one atomic list.append.
errors_append(errs, appended) == errs \o appended

\* The work item runs process_file to its end and resolves the future.
WorkerFinish(i) ==
    /\ i \in Running
    /\ LET o == RunTask(file_list[i])
       IN  /\ errors' = errors_append(errors, o.appended)
           /\ future' = [future EXCEPT ![i] = <<[exc |-> o.exc, value |-> o.value]>>]
    /\ task' = [task EXCEPT ![i] = "finished"]
    /\ UNCHANGED <<cond, file_list, max_workers, pc, submitted, collected,
                   results, successful, failed, progress, ret, prev,
                   image_vars, detect_vars, scan_vars, tag_vars, caller_vars, db_vars>>

\* progress_bar.update(k): tqdm counts only when it is not disabled
\* (disable=not show_progress, line 476).
update(n, k) == IF show_progress THEN n + k ELSE n

\* Mutant: a None result is not counted as a failure.
CollectBodyNoneUncounted(st, file_path, fut) ==
    IF fut.exc
    THEN [st EXCEPT !.failed = @ + 1,
                    !.errors = Append(@, ErrorEntry(file_path, "execution_error")),
                    !.progress = update(@, 1)]
    ELSE IF Len(fut.value) > 0
         THEN [st EXCEPT !.results = Append(@, fut.value[1]),
                         !.successful = @ + 1,
                         !.progress = update(@, 1)]
         ELSE [st EXCEPT !.progress = update(@, 1)]

\* Mutant: future.result() is called outside a try, its exception leaves
\* process_batch.
CollectBodyNoExcept(st, file_path, fut) ==
    IF fut.exc
    THEN [st EXCEPT !.raised = TRUE]
    ELSE IF Len(fut.value) > 0
         THEN [st EXCEPT !.results = Append(@, fut.value[1]),
                         !.successful = @ + 1,
                         !.progress = update(@, 1)]
         ELSE [st EXCEPT !.failed = @ + 1,
                         !.progress = update(@, 1)]

\* Mutant: the progress bar is advanced only for a task that succeeded.
CollectBodySilentFailure(st, file_path, fut) ==
    IF fut.exc
    THEN [st EXCEPT !.failed = @ + 1,
                    !.errors = Append(@, ErrorEntry(file_path, "execution_error"))]
    ELSE IF Len(fut.value) > 0
         THEN [st EXCEPT !.results = Append(@, fut.value[1]),
                         !.successful = @ + 1,
                         !.progress = update(@, 1)]
         ELSE [st EXCEPT !.failed = @ + 1]

\* Mutant: a future that raised gets its error entry but is not counted.
CollectBodyFaultUncounted(st, file_path, fut) ==
    IF fut.exc
    THEN [st EXCEPT !.errors = Append(@, ErrorEntry(file_path, "execution_error")),
                    !.progress = update(@, 1)]
    ELSE IF Len(fut.value) > 0
         THEN [st EXCEPT !.results = Append(@, fut.value[1]),
                         !.successful = @ + 1,
                         !.progress = update(@, 1)]
         ELSE [st EXCEPT !.failed = @ + 1,
                         !.progress = update(@, 1)]

\* Lines 487-504: the body of the as_completed loop for one future.
\* `st` is the part of the state the body reads and writes.
CollectBody(st, file_path, fut) ==
    IF fut.exc
    THEN [st EXCEPT !.failed = @ + 1,
                    !.errors = Append(@, ErrorEntry(file_path, "execution_error")),
                    !.progress = update(@, 1)]
    ELSE IF Len(fut.value) > 0
         THEN [st EXCEPT !.results = Append(@, fut.value[1]),
                         !.successful = @ + 1,
                         !.progress = update(@, 1)]
         ELSE [st EXCEPT !.failed = @ + 1,
                         !.progress = update(@, 1)]

\* Mutant: the futures are waited for in the order of file_list.
CollectInSubmissionOrder(i) ==
    /\ pc = "collect"
    /\ i \in Tasks \ collected
    /\ \A j \in 1..(i - 1) : j \in collected
    /\ task[i] = "finished"
    /\ LET st == [results |-> results, errors |-> errors, successful |-> successful,
                  failed |-> failed, progress |-> progress, raised |-> FALSE]
           nx == CollectBody(st, file_list[i], future[i][1])
       IN  /\ results' = nx.results
           /\ errors' = nx.errors
           /\ successful' = nx.successful
           /\ failed' = nx.failed
           /\ progress' = nx.progress
           /\ pc' = IF nx.raised THEN "raised" ELSE "collect"
    /\ collected' = collected \cup {i}
    /\ UNCHANGED <<cond, file_list, max_workers, submitted, task, future, ret,
                   prev, image_vars, detect_vars, scan_vars, tag_vars, caller_vars, db_vars>>

\* Lines 487-504: as_completed yields a future that is done and has not
\* been yielded, whatever its place in file_list.
Collect(i) ==
    /\ pc = "collect"
    /\ i \in Tasks \ collected
    /\ task[i] = "finished"
    /\ LET st == [results |-> results, errors |-> errors, successful |-> successful,
                  failed |-> failed, progress |-> progress, raised |-> FALSE]
           nx == CollectBody(st, file_list[i], future[i][1])
       IN  /\ results' = nx.results
           /\ errors' = nx.errors
           /\ successful' = nx.successful
           /\ failed' = nx.failed
           /\ progress' = nx.progress
           /\ pc' = IF nx.raised THEN "raised" ELSE "collect"
    /\ collected' = collected \cup {i}
    /\ UNCHANGED <<cond, file_list, max_workers, submitted, task, future, ret,
                   prev, image_vars, detect_vars, scan_vars, tag_vars, caller_vars, db_vars>>

\* Mutant: the call returns without waiting for the futures.
ReturnWithoutWaiting ==
    /\ pc = "collect"
    /\ ret' = <<BatchProcessResult(N, successful, failed, errors)>>
    /\ pc' = "done"
    /\ UNCHANGED <<cond, file_list, max_workers, submitted, task, future, collected,
                   results, errors, successful, failed, progress, prev,
                   image_vars, detect_vars, scan_vars, tag_vars, caller_vars, db_vars>>

\* Lines 506-526: as_completed is exhausted, the executor is shut down, the
\* BatchProcessResult is built and returned.
Return ==
    /\ pc = "collect"
    /\ collected = Tasks
    /\ ret' = <<BatchProcessResult(N, successful, failed, errors)>>
    /\ pc' = "done"
    /\ UNCHANGED <<cond, file_list, max_workers, submitted, task, future, collected,
                   results, errors, successful, failed, progress, prev,
                   image_vars, detect_vars, scan_vars, tag_vars, caller_vars, db_vars>>

Next ==
    \/ process_batch
    \/ Submit
    \/ \E i \in Tasks : WorkerStart(i)
    \/ \E i \in Tasks : WorkerFinish(i)
    \/ \E i \in Tasks : Collect(i)
    \/ Return

Spec == Init /\ [][Next]_vars

\* SpecOnce: process_batch is called once, on a new aggregator.
FreshRun ==
    /\ pc = "idle"
    /\ \E fl \in SeqsUpTo(Paths, MaxFiles), mw \in 1..MaxWorkers : Call(fl, mw)
    /\ UNCHANGED prev

NextOnce ==
    \/ FreshRun
    \/ Submit
    \/ \E i \in Tasks : WorkerStart(i)
    \/ \E i \in Tasks : WorkerFinish(i)
    \/ \E i \in Tasks : Collect(i)
    \/ Return

SpecOnce == Init /\ [][NextOnce]_vars

\* SpecLive: the same steps under the scheduling the code relies on. The
\* submitting loop runs on; a pool thread that is free takes the oldest
\* queued item; an extractor call that has started returns or raises;
\* as_completed yields a future that is done; shutdown(wait=True) and the
\* return follow the last iteration.
\* WorkerFinish(i) is enabled exactly when i is running, so its weak
\* fairness is written with that guard in the place of ENABLED.
Fairness ==
    /\ WF_vars(Submit)
    /\ WF_vars(\E i \in Tasks : WorkerStart(i))
    /\ \/ []<>(Running = {})
       \/ []<><<\E i \in Tasks : WorkerFinish(i)>>_vars
    /\ WF_vars(\E i \in Tasks : Collect(i))
    /\ WF_vars(Return)

SpecLive == Init /\ [][NextOnce]_vars /\ Fairness

\* SpecProgress: the batch is run with the progress bar shown or with
\* show_progress=False.
InitProgress ==
    /\ cond \in [Paths -> Conditions]
    /\ BatchIdle
    /\ show_progress \in BOOLEAN
    /\ other = [pc |-> "idle", file_path |-> ""]
    /\ DbIdle
    /\ ImageIdle
    /\ DetectIdle
    /\ ScanIdle
    /\ TagIdle

SpecProgress == InitProgress /\ [][NextOnce]_vars

(***************************************************************************)
(* SpecTwoRuns: process_batch is run twice over the same file_list, first  *)
(* with max_workers = 1 and then with a larger max_workers; `prev` keeps   *)
(* what the first run ended with.                                          *)
(***************************************************************************)
RecordPaths(rs) == {rs[k].file_path : k \in 1..Len(rs)}
PathOrder(rs) == [k \in 1..Len(rs) |-> rs[k].file_path]

FirstRun ==
    /\ pc = "idle"
    /\ \E fl \in SeqsUpTo(Paths, MaxFiles) : Call(fl, 1)
    /\ UNCHANGED prev

SecondRun ==
    /\ pc = "done"
    /\ prev = <<>>
    /\ \E mw \in 2..MaxWorkers : Call(file_list, mw)
    /\ prev' = <<[paths |-> RecordPaths(results), order |-> PathOrder(results),
                  n_records |-> Len(results), n_errors |-> Len(ret[1].errors)]>>

NextTwoRuns ==
    \/ FirstRun
    \/ SecondRun
    \/ Submit
    \/ \E i \in Tasks : WorkerStart(i)
    \/ \E i \in Tasks : WorkerFinish(i)
    \/ \E i \in Tasks : Collect(i)
    \/ Return

SpecTwoRuns == Init /\ [][NextTwoRuns]_vars

(***************************************************************************)
(* SpecReuse: one aggregator used again. process_file is called directly,  *)
(* a batch is run, and then a second batch over any file_list; `prev`      *)
(* keeps what the collectors held when the second batch was called.        *)
(***************************************************************************)
\* A direct call of process_file outside a batch: on a failure its handler
\* appends to self.errors; self.results is not touched.
ProcessFile ==
    /\ pc \in {"idle", "done"}
    /\ Len(errors) < MaxFiles
    /\ \E file_path \in Paths :
           errors' = errors_append(errors, RunTask(file_path).appended)
    /\ UNCHANGED <<cond, file_list, max_workers, pc, submitted, task, future,
                   collected, results, successful, failed, progress, ret, prev,
                   image_vars, detect_vars, scan_vars, tag_vars, caller_vars, db_vars>>

LeftOver ==
    [paths |-> RecordPaths(results) \cup {errors[k].file : k \in 1..Len(errors)},
     order |-> <<>>,
     n_records |-> Len(results),
     n_errors |-> Len(errors)]

LaterRun ==
    /\ pc = "done"
    /\ prev = <<>>
    /\ \E fl \in SeqsUpTo(Paths, MaxFiles) : Call(fl, 1)
    /\ prev' = <<LeftOver>>

NextReuse ==
    \/ ProcessFile
    \/ FirstRun
    \/ LaterRun
    \/ Submit
    \/ \E i \in Tasks : WorkerStart(i)
    \/ \E i \in Tasks : WorkerFinish(i)
    \/ \E i \in Tasks : Collect(i)
    \/ Return

SpecReuse == Init /\ [][NextReuse]_vars

(***************************************************************************)
(* SpecConcurrent: while one process_batch call is under way, a second     *)
(* call is made on the same aggregator from another thread. The first call *)
(* is modelled in full; the second, over one path, by what it does to      *)
(* self.results and self.errors, which the two calls share.                *)
(***************************************************************************)
\* Lines 466-467 of the second call: the attributes are bound to new lists.
OtherCall ==
    /\ InCall
    /\ other.pc = "idle"
    /\ \E file_path \in Paths : other' = [pc |-> "running", file_path |-> file_path]
    /\ results' = <<>>
    /\ errors' = <<>>
    /\ UNCHANGED <<cond, file_list, max_workers, pc, submitted, task, future,
                   collected, successful, failed, progress, ret, prev, show_progress,
                   image_vars, detect_vars, scan_vars, tag_vars, db_vars>>

\* The second call's work item runs process_file to its end.
OtherFinish ==
    /\ other.pc = "running"
    /\ errors' = errors_append(errors, RunTask(other.file_path).appended)
    /\ other' = [other EXCEPT !.pc = "finished"]
    /\ UNCHANGED <<cond, file_list, max_workers, pc, submitted, task, future,
                   collected, results, successful, failed, progress, ret, prev,
                   show_progress, image_vars, detect_vars, scan_vars, tag_vars, db_vars>>

\* The second call's as_completed loop handles its future; its counters are
\* its own locals.
OtherCollect ==
    /\ other.pc = "finished"
    /\ LET o == RunTask(other.file_path)
           st == [results |-> results, errors |-> errors, successful |-> 0,
                  failed |-> 0, progress |-> 0, raised |-> FALSE]
           nx == CollectBody(st, other.file_path, [exc |-> o.exc, value |-> o.value])
       IN  /\ results' = nx.results
           /\ errors' = nx.errors
    /\ other' = [other EXCEPT !.pc = "done"]
    /\ UNCHANGED <<cond, file_list, max_workers, pc, submitted, task, future,
                   collected, successful, failed, progress, ret, prev, show_progress,
                   image_vars, detect_vars, scan_vars, tag_vars, db_vars>>

NextConcurrent ==
    \/ FreshRun
    \/ OtherCall
    \/ OtherFinish
    \/ OtherCollect
    \/ Submit
    \/ \E i \in Tasks : WorkerStart(i)
    \/ \E i \in Tasks : WorkerFinish(i)
    \/ \E i \in Tasks : Collect(i)
    \/ Return

SpecConcurrent == Init /\ [][NextConcurrent]_vars

(***************************************************************************)
(* _process_image and _extract_gps_from_tags                               *)
(*                                                                         *)
(* A tag of `tags` is <<>> (no such key) or <<v>>.  For a tag read with    *)
(* str() v is "wellformed" or "malformed", telling whether the text parses *)
(* as the field needs (int(...), strptime); for a rational tag v is the    *)
(* list tag.values of ratios [num, den]; for a GPS reference v is the      *)
(* text.                                                                   *)
(***************************************************************************)
Ratio(n, d) == [num |-> n, den |-> d]

TagOf(key) ==
    CASE key = "width"         -> "Image ImageWidth"
      [] key = "height"        -> "Image ImageLength"
      [] key = "camera_make"   -> "Image Make"
      [] key = "camera_model"  -> "Image Model"
      [] key = "lens_model"    -> "EXIF LensModel"
      [] key = "focal_length"  -> "EXIF FocalLength"
      [] key = "aperture"      -> "EXIF FNumber"
      [] key = "shutter_speed" -> "EXIF ExposureTime"
      [] key = "iso"           -> "EXIF ISOSpeedRatings"
      [] key = "date_taken"    -> "EXIF DateTimeOriginal"

\* How the field's statement reads its tag.
\*   int    int(str(tag)): raises on text that is no integer
\*   str    str(tag).strip(): never raises
\*   ratio  float(values[0].num) / float(values[0].den): raises on an empty
\*          list and on a zero denominator
\*   date   strptime inside its own try/except: pass
IntFields == {"width", "height", "iso"}
StrFields == {"camera_make", "camera_model", "lens_model", "shutter_speed"}
RatioFields == {"focal_length", "aperture"}
DateFields == {"date_taken"}

\* float(r.num) / float(r.den) raises ZeroDivisionError
DivisionRaises(r) == r.den = 0

\* convert_to_degrees raises: fewer than three components, or a division by zero
ConvertRaises(value) ==
    \/ Len(value) < 3
    \/ \E k \in 1..3 : DivisionRaises(value[k])

\* Mutant: minutes and seconds are read as decimal fractions of a degree.
convert_to_degrees_centesimal(value) ==
    LET d == value[1]
        m == value[2]
        sec == value[3]
    IN  Ratio(d.num * m.den * sec.den * 10000 + m.num * d.den * sec.den * 100
                  + sec.num * d.den * m.den,
              d.den * m.den * sec.den * 10000)

\* convert_to_degrees: d + (m / 60.0) + (s / 3600.0)
convert_to_degrees(value) ==
    LET d == value[1]
        m == value[2]
        sec == value[3]
    IN  Ratio(d.num * m.den * sec.den * 3600 + m.num * d.den * sec.den * 60
                  + sec.num * d.den * m.den,
              d.den * m.den * sec.den * 3600)

Negated(r) == Ratio(-r.num, r.den)

\* Mutant: only the two coordinate tags are required; str() of a missing
\* reference is "None".
_extract_gps_refs_unchecked(t) ==
    LET lat == t["GPS GPSLatitude"]
        lat_ref == IF t["GPS GPSLatitudeRef"] = <<>> THEN "None"
                   ELSE t["GPS GPSLatitudeRef"][1]
        lon == t["GPS GPSLongitude"]
        lon_ref == IF t["GPS GPSLongitudeRef"] = <<>> THEN "None"
                   ELSE t["GPS GPSLongitudeRef"][1]
        alt == t["GPS GPSAltitude"]
    IN  IF lat = <<>> \/ lon = <<>>
        THEN <<>>
        ELSE IF ConvertRaises(lat[1]) \/ ConvertRaises(lon[1])
        THEN <<>>
        ELSE IF alt # <<>> /\ (Len(alt[1]) < 1 \/ DivisionRaises(alt[1][1]))
        THEN <<>>
        ELSE <<[latitude |-> IF lat_ref = "S"
                             THEN Negated(convert_to_degrees(lat[1]))
                             ELSE convert_to_degrees(lat[1]),
                longitude |-> IF lon_ref = "W"
                              THEN Negated(convert_to_degrees(lon[1]))
                              ELSE convert_to_degrees(lon[1]),
                latitude_ref |-> lat_ref,
                longitude_ref |-> lon_ref,
                altitude |-> IF alt = <<>> THEN <<>> ELSE <<alt[1][1]>>]>>

\* _extract_gps_from_tags: <<>> is None, <<gps_dict>> the dict; the whole body
\* is inside try/except Exception: return None.
_extract_gps_from_tags(t) ==
    LET lat == t["GPS GPSLatitude"]
        lat_ref == t["GPS GPSLatitudeRef"]
        lon == t["GPS GPSLongitude"]
        lon_ref == t["GPS GPSLongitudeRef"]
        alt == t["GPS GPSAltitude"]
    IN  IF lat = <<>> \/ lat_ref = <<>> \/ lon = <<>> \/ lon_ref = <<>>
        THEN <<>>
        ELSE IF ConvertRaises(lat[1]) \/ ConvertRaises(lon[1])
        THEN <<>>
        ELSE IF alt # <<>> /\ (Len(alt[1]) < 1 \/ DivisionRaises(alt[1][1]))
        THEN <<>>
        ELSE <<[latitude |-> IF lat_ref[1] = "S"
                             THEN Negated(convert_to_degrees(lat[1]))
                             ELSE convert_to_degrees(lat[1]),
                longitude |-> IF lon_ref[1] = "W"
                              THEN Negated(convert_to_degrees(lon[1]))
                              ELSE convert_to_degrees(lon[1]),
                latitude_ref |-> lat_ref[1],
                longitude_ref |-> lon_ref[1],
                altitude |-> IF alt = <<>> THEN <<>> ELSE <<alt[1][1]>>]>>

\* One `if ... in tags:` statement of the try block (lines 204-235): whether
\* it raises, and the dict after it.
ExtractField(key, t, md) ==
    LET tag == t[TagOf(key)]
        skip == [raised |-> FALSE, metadata |-> md]
        raise == [raised |-> TRUE, metadata |-> md]
        set(v) == [raised |-> FALSE, metadata |-> [md EXCEPT ![key] = <<v>>]]
    IN  IF tag = <<>> THEN skip
        ELSE CASE key \in IntFields ->
                    IF tag[1] = "malformed" THEN raise ELSE set("int")
               [] key \in StrFields -> set("str")
               [] key \in RatioFields ->
                    IF Len(tag[1]) < 1 \/ DivisionRaises(tag[1][1])
                    THEN raise
                    ELSE set(tag[1][1])
               [] key \in DateFields ->
                    IF tag[1] = "malformed" THEN skip ELSE set("datetime")

NextField(key) ==
    LET k == CHOOSE j \in 1..Len(FieldOrder) : FieldOrder[j] = key
    IN  IF k = Len(FieldOrder) THEN "pil" ELSE FieldOrder[k + 1]

\* Line 188-196: the base fields are in place, the try block is entered.
ImageStart ==
    /\ img_pc = "idle"
    /\ img_pc' = "exif"
    /\ UNCHANGED <<batch_vars, caller_vars, db_vars, detect_vars, scan_vars, tag_vars, tags, exif_raises, pil_ok, metadata, gps_data>>

\* Lines 200-201: exifread.process_file; an exception leaves the try block.
ReadExif ==
    /\ img_pc = "exif"
    /\ img_pc' = IF exif_raises THEN "pil" ELSE FieldOrder[1]
    /\ UNCHANGED <<batch_vars, caller_vars, db_vars, detect_vars, scan_vars, tag_vars, tags, exif_raises, pil_ok, metadata, gps_data>>

\* Lines 204-235: one field; an exception leaves the try block (lines 242-244).
FieldStep ==
    /\ img_pc \in {FieldOrder[k] : k \in 1..Len(FieldOrder)} \ {"gps_coordinates"}
    /\ LET r == ExtractField(img_pc, tags, metadata)
       IN  /\ metadata' = r.metadata
           /\ img_pc' = IF r.raised THEN "pil" ELSE NextField(img_pc)
    /\ UNCHANGED <<batch_vars, caller_vars, db_vars, detect_vars, scan_vars, tag_vars, tags, exif_raises, pil_ok, gps_data>>

\* Lines 237-240: the GPS data.
GpsStep ==
    /\ img_pc = "gps_coordinates"
    /\ LET g == _extract_gps_from_tags(tags)
       IN  /\ gps_data' = <<g>>
           /\ metadata' = IF g # <<>>
                          THEN [metadata EXCEPT !["gps_coordinates"] = g]
                          ELSE metadata
    /\ img_pc' = "pil"
    /\ UNCHANGED <<batch_vars, caller_vars, db_vars, detect_vars, scan_vars, tag_vars, tags, exif_raises, pil_ok>>

\* Lines 246-257: width, height and format from PIL, then return metadata.
PilStep ==
    /\ img_pc = "pil"
    /\ metadata' =
          IF pil_ok
          THEN [k \in FieldKeys |->
                  IF k \in {"width", "height"} /\ metadata[k] = <<>> THEN <<"int">>
                  ELSE IF k = "format" THEN <<"str">>
                  ELSE metadata[k]]
          ELSE metadata
    /\ img_pc' = "done"
    /\ UNCHANGED <<batch_vars, caller_vars, db_vars, detect_vars, scan_vars, tag_vars, tags, exif_raises, pil_ok, gps_data>>

(***************************************************************************)
(* The images _process_image is run on.                                    *)
(***************************************************************************)
PlainTags == {"Image ImageWidth", "Image ImageLength", "Image Make", "Image Model",
              "EXIF LensModel", "EXIF ExposureTime", "EXIF ISOSpeedRatings",
              "EXIF DateTimeOriginal"}
RationalTags == {"EXIF FocalLength", "EXIF FNumber"}

\* Tags whose text may fail to parse.
ParsedTags == {"Image ImageWidth", "Image ImageLength", "EXIF ISOSpeedRatings",
               "EXIF DateTimeOriginal"}

RegularValue(t) ==
    CASE t \in PlainTags -> <<"wellformed">>
      [] t \in RationalTags -> <<(<<Ratio(50, 1)>>)>>
      [] t = "GPS GPSLatitude" -> <<(<<Ratio(40, 1), Ratio(26, 1), Ratio(46, 1)>>)>>
      [] t = "GPS GPSLatitudeRef" -> <<"N">>
      [] t = "GPS GPSLongitude" -> <<(<<Ratio(79, 1), Ratio(58, 1), Ratio(56, 1)>>)>>
      [] t = "GPS GPSLongitudeRef" -> <<"W">>
      [] t = "GPS GPSAltitude" -> <<(<<Ratio(100, 1)>>)>>

\* What a tag holds when its text or its ratio cannot be converted.
MalformedValue(t) ==
    IF t \in RationalTags THEN <<(<<Ratio(50, 0)>>)>> ELSE <<"malformed">>

\* Images with at most MaxIrregular tags absent or malformed.
FieldInputs ==
    UNION {
        {[n \in TagNames |->
            IF n \notin D THEN RegularValue(n)
            ELSE IF n \in B THEN MalformedValue(n)
            ELSE <<>>] : B \in SUBSET (D \cap (ParsedTags \cup RationalTags))} :
        D \in {X \in SUBSET TagNames : Cardinality(X) <= MaxIrregular}}

DegreeRatios == {Ratio(40, 1), Ratio(91, 1), Ratio(181, 2), Ratio(1, 0)}
MinuteRatios == {Ratio(26, 1), Ratio(0, 0)}
SecondRatios == {Ratio(46, 1), Ratio(3, 0)}

LatitudeValues ==
    {<<>>, <<(<<Ratio(40, 1), Ratio(26, 1)>>)>>}
    \cup {<<(<<d, m, sec>>)>> : d \in DegreeRatios, m \in MinuteRatios, sec \in SecondRatios}
LongitudeValues ==
    {<<>>,
     <<(<<Ratio(79, 1), Ratio(58, 1), Ratio(56, 1)>>)>>,
     <<(<<Ratio(181, 1), Ratio(0, 1), Ratio(0, 1)>>)>>,
     <<(<<Ratio(79, 1), Ratio(58, 0), Ratio(56, 1)>>)>>}
AltitudeValues == {<<>>, <<(<<Ratio(100, 1)>>)>>, <<(<<Ratio(1, 0)>>)>>}

\* The reference tags: absent, the two hemispheres, and texts that name no
\* hemisphere (str(lat_ref) == 'S' is an exact comparison).
LatitudeRefs == {<<>>, <<"N">>, <<"S">>, <<"s">>}
LongitudeRefs == {<<>>, <<"E">>, <<"W">>, <<"S">>}

\* Images whose other tags are regular and whose GPS tags vary.
GpsInputs ==
    {[n \in TagNames |->
        CASE n = "GPS GPSLatitude" -> lat
          [] n = "GPS GPSLatitudeRef" -> lat_ref
          [] n = "GPS GPSLongitude" -> lon
          [] n = "GPS GPSLongitudeRef" -> lon_ref
          [] n = "GPS GPSAltitude" -> alt
          [] OTHER -> RegularValue(n)] :
        lat \in LatitudeValues, lat_ref \in LatitudeRefs,
        lon \in LongitudeValues, lon_ref \in LongitudeRefs,
        alt \in AltitudeValues}

InitImage ==
    /\ cond = [p \in Paths |-> "ok"]
    /\ BatchIdle
    /\ CallerIdle
    /\ DbIdle
    /\ \/ /\ tags \in FieldInputs
          /\ exif_raises \in BOOLEAN
          /\ pil_ok \in BOOLEAN
       \/ /\ tags \in GpsInputs
          /\ exif_raises = FALSE
          /\ pil_ok = TRUE
    /\ img_pc = "idle"
    /\ metadata = [k \in FieldKeys |-> <<>>]
    /\ gps_data = <<>>
    /\ DetectIdle
    /\ ScanIdle
    /\ TagIdle

NextImage ==
    \/ ImageStart
    \/ ReadExif
    \/ FieldStep
    \/ GpsStep
    \/ PilStep

SpecImage == InitImage /\ [][NextImage]_vars

(***************************************************************************)
(* detect_file_type on one path.                                           *)
(***************************************************************************)
AllExtensions == UNION {Range(SUPPORTED_EXTENSIONS[c]) : c \in Categories}

\* ".jpg" spelled with a capital first letter only: ".Jpg"
Capitalized(e) == "." \o Upper(Char(e, 2)) \o SubSeq(e, 3, Len(e))

CaseVariants(e) == {e, Upper(e), Capitalized(e)}

\* What precedes the extension: a bare name, a name inside a directory
\* whose own name has a suffix, a name with an inner dot.
Stems == {"a", "v.mp4/B_2", "x.tar"}

SupportedPaths == {stem \o v : stem \in Stems, v \in UNION {CaseVariants(e) : e \in AllExtensions}}

\* Paths with no suffix or a suffix of no category.
OtherPaths ==
    {"notes", "c.dat", ".jpg", "d/.PNG", "a.", "a.jpg.", "x.tar.gz", "v.mp4/readme",
     "a.jpg.bak", "a.jpgx", "ajpg", "a.jp", "a.JPG/b"}

DetectInputs == SupportedPaths \cup OtherPaths

InitDetect ==
    /\ cond = [p \in Paths |-> "ok"]
    /\ BatchIdle
    /\ CallerIdle
    /\ DbIdle
    /\ ImageIdle
    /\ det_path \in DetectInputs
    /\ det_type = <<>>
    /\ ScanIdle
    /\ TagIdle

Detect ==
    /\ det_type = <<>>
    /\ det_type' = <<detect_file_type(det_path)>>
    /\ UNCHANGED <<batch_vars, caller_vars, db_vars, image_vars, scan_vars, tag_vars, det_path>>

NextDetect == Detect

SpecDetect == InitDetect /\ [][NextDetect]_vars

(***************************************************************************)
(* scan_directory                                                          *)
(*                                                                         *)
(* The tree: the directories "d" and "d/s.png" and a few of the files of   *)
(* FileUniverse.  A path of the tree is the string str(Path) gives for it. *)
(***************************************************************************)
MaxEntries == 2    \* most files in the tree

Directories == {"d", "d/s.png"}

FileUniverse ==
    {"d/a.jpg", "d/B.JPG", "d/c.Jpg", "d/e.mp3", "d/n.txt", "d/s.png/a.jpg",
     "d/s.png/F.PDF"}

Trees == {X \in SUBSET FileUniverse : Cardinality(X) <= MaxEntries}

\* The path argument: the two directories, a file of the universe, a name
\* that is not in the tree.
ScanRoots == Directories \cup {"d/a.jpg", "nowhere"}

\* The file_types argument: None, one category, a list that names a
\* category twice and holds a name of no category.
FileTypeFilters ==
    {<<>>, <<(<<"image">>)>>, <<(<<"document", "archive", "document">>)>>}

\* Path.exists(), Path.is_dir()
exists(p) == p \in Directories \cup fs
is_dir(p) == p \in Directories

\* Mutant: only the existence of the path is checked.
path_error_exists_only(p) ==
    IF ~exists(p) THEN <<"ValueError">> ELSE <<>>

\* Lines 98-102: the exception the validation raises, <<>> when it passes.
path_error(p) ==
    IF ~exists(p) THEN <<"ValueError">>
    ELSE IF ~is_dir(p) THEN <<"ValueError">>
    ELSE <<>>

RECURSIVE Concat(_)
Concat(seqs) == IF Len(seqs) = 0 THEN <<>> ELSE Head(seqs) \o Concat(Tail(seqs))

\* Lines 105-113: the list `extensions`.
extensions(ft) ==
    IF ft = <<>>
    THEN Concat([k \in 1..Len(CategoryOrder) |-> SUPPORTED_EXTENSIONS[CategoryOrder[k]]])
    ELSE Concat([k \in 1..Len(ft[1]) |->
                    IF ft[1][k] \in Categories
                    THEN SUPPORTED_EXTENSIONS[ft[1][k]]
                    ELSE <<>>])

StartsWith(s, prefix) ==
    Len(s) >= Len(prefix) /\ SubSeq(s, 1, Len(prefix)) = prefix
EndsWith(s, suffix) ==
    Len(s) >= Len(suffix) /\ SubSeq(s, Len(s) - Len(suffix) + 1, Len(s)) = suffix

\* The pattern "*" \o tail matches the name: by case on a flavour that
\* tells case, on the case-folded texts otherwise.
fnmatch(name, pattern) ==
    LET tail == SubSeq(pattern, 2, Len(pattern))
    IN  IF case_sensitive
        THEN EndsWith(name, tail)
        ELSE EndsWith(Lower(name), Lower(tail))

\* What a directory of the tree can hold: files and directories.
Entries == fs \cup Directories

\* Path.rglob(pattern): the entries anywhere below p whose name matches.
rglob(p, pattern) ==
    {e \in Entries : StartsWith(e, p \o "/") /\ fnmatch(Name(e), pattern)}

\* Mutant: the search of the directory itself goes down the whole subtree.
glob_whole_subtree(p, pattern) == rglob(p, pattern)

\* Path.glob(pattern): the entries of p itself whose name matches.
glob(p, pattern) ==
    {e \in Entries : Parent(e) = p /\ fnmatch(Name(e), pattern)}

\* a < b for two str, by code point.
RECURSIVE StrLess(_, _)
StrLess(a, b) ==
    IF Len(b) = 0 THEN FALSE
    ELSE IF Len(a) = 0 THEN TRUE
    ELSE LET x == CodePoint[Head(a)]
             y == CodePoint[Head(b)]
         IN  IF x # y THEN x < y ELSE StrLess(Tail(a), Tail(b))

\* sorted(S) for a set of str
RECURSIVE sorted(_)
sorted(S) ==
    IF S = {} THEN <<>>
    ELSE LET least == CHOOSE x \in S : \A y \in S \ {x} : StrLess(x, y)
         IN  <<least>> \o sorted(S \ {least})

Reverse(seq) == [k \in 1..Len(seq) |-> seq[Len(seq) + 1 - k]]

\* A glob result as the generator yields it: in the order of the listing.
Listed(S) == IF listing = "ascending" THEN sorted(S) ELSE Reverse(sorted(S))

\* Lines 116-124: `files` after the loop over `extensions`.
find_files(p, rec, exts) ==
    Concat([k \in 1..Len(exts) |->
               IF rec
               THEN Listed(rglob(p, "*" \o exts[k]))
                        \o Listed(rglob(p, "*" \o Upper(exts[k])))
               ELSE Listed(glob(p, "*" \o exts[k]))
                        \o Listed(glob(p, "*" \o Upper(exts[k])))])

\* Mutant: the paths are left in the order they were first found.
RECURSIVE file_paths_as_found(_)
file_paths_as_found(fl) ==
    IF Len(fl) = 0 THEN <<>>
    ELSE LET before == file_paths_as_found(SubSeq(fl, 1, Len(fl) - 1))
             last == fl[Len(fl)]
         IN  IF last \in Range(before) THEN before ELSE Append(before, last)

\* Line 127: sorted(list(set(str(f) for f in files)))
file_paths(fl) == sorted(Range(fl))

InitScan ==
    /\ cond = [p \in Paths |-> "ok"]
    /\ BatchIdle
    /\ CallerIdle
    /\ DbIdle
    /\ ImageIdle
    /\ DetectIdle
    /\ TagIdle
    /\ fs \in Trees
    /\ case_sensitive \in BOOLEAN
    /\ listing \in {"ascending", "descending"}
    /\ path \in ScanRoots
    /\ recursive \in BOOLEAN
    /\ file_types \in FileTypeFilters
    /\ scan_pc = "call"
    /\ files = <<>>
    /\ scan_exc = <<>>
    /\ scan_ret = <<>>
    /\ scan_prev = <<>>

\* Lines 94-113: the path is validated, the extension list built.
Validate ==
    /\ scan_pc = "call"
    /\ scan_exc' = path_error(path)
    /\ scan_pc' = IF path_error(path) # <<>> THEN "raised" ELSE "glob"
    /\ UNCHANGED <<batch_vars, caller_vars, db_vars, image_vars, detect_vars, tag_vars, fs, case_sensitive,
                   listing, path, recursive, file_types, files, scan_ret, scan_prev>>

\* Lines 115-124: the searches.
Search ==
    /\ scan_pc = "glob"
    /\ files' = find_files(path, recursive, extensions(file_types))
    /\ scan_pc' = "sort"
    /\ UNCHANGED <<batch_vars, caller_vars, db_vars, image_vars, detect_vars, tag_vars, fs, case_sensitive,
                   listing, path, recursive, file_types, scan_exc, scan_ret, scan_prev>>

\* Lines 126-132: the list is made unique and sorted, and returned.
ScanReturn ==
    /\ scan_pc = "sort"
    /\ scan_ret' = <<file_paths(files)>>
    /\ scan_pc' = "done"
    /\ UNCHANGED <<batch_vars, caller_vars, db_vars, image_vars, detect_vars, tag_vars, fs, case_sensitive,
                   listing, path, recursive, file_types, files, scan_exc, scan_prev>>

\* The same path of the unchanged tree is scanned a second time; the
\* directories may be listed in another order, `recursive` may differ.
ScanAgain ==
    /\ scan_pc = "done"
    /\ scan_prev = <<>>
    /\ scan_prev' = <<[recursive |-> recursive, listing |-> listing,
                       value |-> scan_ret[1]]>>
    /\ recursive' \in BOOLEAN
    /\ listing' \in {"ascending", "descending"}
    /\ files' = <<>>
    /\ scan_ret' = <<>>
    /\ scan_pc' = "call"
    /\ UNCHANGED <<batch_vars, caller_vars, db_vars, image_vars, detect_vars, tag_vars, fs, case_sensitive,
                   path, file_types, scan_exc>>

NextScan ==
    \/ Validate
    \/ Search
    \/ ScanReturn
    \/ ScanAgain

SpecScan == InitScan /\ [][NextScan]_vars

(***************************************************************************)
(* _process_audio and _process_document: the keys added to the base        *)
(* fields.                                                                 *)
(*                                                                         *)
(* ext_in is what the backend (eyed3, pdfplumber, python-docx) delivers:   *)
(*   kind     "audio", "pdf" or "docx";                                    *)
(*   loads    "ok", "none" (eyed3.load returns None, the pdf or docx       *)
(*            library is not installed) or "raises";                       *)
(*   has_tag  audiofile.tag, pdf.metadata is not empty;                    *)
(*   has_info audiofile.info is not empty;                                 *)
(*   props    attribute or frame -> <<>> (None, no such frame) or <<v>>.   *)
(* ext_md maps a key to <<>> (no such key) or <<value>>, the value being   *)
(* an Optional itself: <<(<<>>)>> is a key that holds None.                *)
(***************************************************************************)
MaxMissing == 2    \* most frames or properties one file lacks

PropNames ==
    {"title", "artist", "album", "album_artist", "genre", "recording_date",
     "track_num", "bit_rate", "author", "subject", "creator", "producer",
     "creation_date", "keywords", "modified"}

ExtKeys ==
    {"title", "artist", "album", "album_artist", "genre", "year", "track_number",
     "duration", "bitrate", "sample_rate", "page_count", "author", "subject",
     "creator", "producer", "creation_date", "keywords", "modification_date",
     "word_count"}

ExtInputs ==
    {[kind |-> k, loads |-> l, has_tag |-> t, has_info |-> i,
      props |-> [n \in PropNames |-> IF n \in M THEN <<>> ELSE <<"value">>]] :
        k \in {"audio", "pdf", "docx"}, l \in {"ok", "none", "raises"},
        t \in BOOLEAN, i \in BOOLEAN,
        M \in {X \in SUBSET PropNames : Cardinality(X) <= MaxMissing}}

NoKeys == [k \in ExtKeys |-> <<>>]

\* Lines 347-372: an exception of eyed3.load leaves the try block before a
\* key is set.
_process_audio(in) ==
    IF in.loads # "ok" THEN NoKeys
    ELSE [k \in ExtKeys |->
            CASE k \in {"title", "artist", "album", "album_artist", "genre"}
                     /\ in.has_tag -> <<in.props[k]>>
              [] k = "year" /\ in.has_tag /\ in.props["recording_date"] # <<>> ->
                     <<in.props["recording_date"]>>
              [] k = "track_number" /\ in.has_tag /\ in.props["track_num"] # <<>> ->
                     <<in.props["track_num"]>>
              [] k \in {"duration", "sample_rate"} /\ in.has_info -> <<(<<"value">>)>>
              [] k = "bitrate" /\ in.has_info -> <<in.props["bit_rate"]>>
              [] OTHER -> <<>>]

\* Lines 386-434: the PDF branch and the DOCX branch.
_process_document(in) ==
    IF in.loads # "ok" THEN NoKeys
    ELSE IF in.kind = "pdf"
    THEN [k \in ExtKeys |->
            CASE k = "page_count" -> <<(<<"value">>)>>
              [] k \in {"title", "author", "subject", "creator", "producer"}
                     /\ in.has_tag -> <<in.props[k]>>
              [] k = "creation_date" /\ in.has_tag /\ in.props[k] # <<>> ->
                     <<in.props[k]>>
              [] OTHER -> <<>>]
    ELSE [k \in ExtKeys |->
            CASE k \in {"title", "author", "subject", "keywords", "creation_date"} ->
                     <<in.props[k]>>
              [] k = "modification_date" -> <<in.props["modified"]>>
              [] k = "word_count" -> <<(<<"value">>)>>
              [] OTHER -> <<>>]

InitTags ==
    /\ cond = [p \in Paths |-> "ok"]
    /\ BatchIdle
    /\ CallerIdle
    /\ DbIdle
    /\ ImageIdle
    /\ DetectIdle
    /\ ScanIdle
    /\ ext_in \in ExtInputs
    /\ ext_md = NoKeys
    /\ ext_pc = "call"

ProcessAudio ==
    /\ ext_pc = "call"
    /\ ext_in.kind = "audio"
    /\ ext_md' = _process_audio(ext_in)
    /\ ext_pc' = "done"
    /\ UNCHANGED <<batch_vars, caller_vars, db_vars, image_vars, detect_vars, scan_vars, ext_in>>

ProcessDocument ==
    /\ ext_pc = "call"
    /\ ext_in.kind \in {"pdf", "docx"}
    /\ ext_md' = _process_document(ext_in)
    /\ ext_pc' = "done"
    /\ UNCHANGED <<batch_vars, caller_vars, db_vars, image_vars, detect_vars, scan_vars, ext_in>>

NextTags ==
    \/ ProcessAudio
    \/ ProcessDocument

SpecTags == InitTags /\ [][NextTags]_vars

(***************************************************************************)
(* Claims about process_batch                                              *)
(***************************************************************************)
Done == pc = "done"
Result == ret[1]

\* Tasks whose extraction raises inside process_file, whose future faults.
RaisingTasks == {i \in Tasks : cond[file_list[i]] = "unreadable"}
FaultingTasks == {i \in Tasks : cond[file_list[i]] = "fault"}
RecordIndices(p) == {k \in 1..Len(results) : results[k].file_path = p}
TaskIndices(p) == {i \in Tasks : file_list[i] = p}
ErrorIndices(errs, p, kind) ==
    {k \in 1..Len(errs) : errs[k].file = p /\ errs[k].type = kind}
NoDuplicates(seq) == \A j, k \in 1..Len(seq) : j # k => seq[j] # seq[k]

\* C1: when exactly K of the N paths make their extraction raise (and no
\* future faults), the returned BatchResult has successful = N-K, failed = K
\* and len(errors) = K, for every max_workers and every interleaving.
C1_BatchCounts ==
    (Done /\ FaultingTasks = {}) =>
        LET K == Cardinality(RaisingTasks)
        IN  /\ Result.successful = N - K
            /\ Result.failed = K
            /\ Len(Result.errors) = K

C1_Witness ==
    /\ Done
    /\ N = MaxFiles
    /\ max_workers = N
    /\ FaultingTasks = {}
    /\ Cardinality(RaisingTasks) = 1
    /\ Result.failed = 1

\* C2: a per-file failure never leaves process_batch as an exception: the
\* call returns a BatchResult with total_files = len(file_list), every task
\* has been run and collected, and every file that does not fail has its
\* record in the collection.
C2_NoAbort ==
    /\ pc # "raised"
    /\ Done =>
        /\ Result.total_files = N
        /\ collected = Tasks
        /\ \A i \in Tasks : task[i] = "finished"
        /\ Result.successful + Result.failed = N
        /\ \A i \in Tasks \ (RaisingTasks \cup FaultingTasks) :
               RecordIndices(file_list[i]) # {}

C2_Witness ==
    /\ Done
    /\ N = MaxFiles
    /\ RaisingTasks # {}
    /\ FaultingTasks # {}
    /\ RaisingTasks \cup FaultingTasks = Tasks
    /\ Result.failed = N

\* C3: a run with max_workers = 1 and a run with a larger max_workers over
\* the same file_list end with the same set of record paths and the same
\* number of errors.
C3_SameOutcome ==
    (Done /\ prev # <<>>) =>
        /\ RecordPaths(results) = prev[1].paths
        /\ Len(results) = prev[1].n_records
        /\ Len(Result.errors) = prev[1].n_errors

C3_Witness ==
    /\ Done
    /\ prev # <<>>
    /\ max_workers > 1
    /\ N = MaxFiles
    /\ PathOrder(results) # prev[1].order

\* C4 as stated: for every file_list, no two collected records share a
\* file_path once the batch has completed.
C4_UniquePathsAnyList ==
    Done => NoDuplicates(PathOrder(results))

\* C4 amended: for every file_list that holds no path twice, no two
\* collected records share a file_path once the batch has completed.
C4_UniquePathsDistinctList ==
    (Done /\ NoDuplicates(file_list)) => NoDuplicates(PathOrder(results))

C4_Witness ==
    /\ Done
    /\ NoDuplicates(file_list)
    /\ Len(results) = Cardinality(Paths)

\* C5: every error entry is of kind processing_error or execution_error; a
\* path whose extraction raises gets one processing_error entry per task, a
\* path whose future faults gets one execution_error entry per task, and
\* failed counts each such task exactly once.
C5_ErrorKinds ==
    Done =>
        LET errs == Result.errors
        IN  /\ \A k \in 1..Len(errs) :
                   errs[k].type \in {"processing_error", "execution_error"}
            /\ \A p \in Paths :
                   /\ Cardinality(ErrorIndices(errs, p, "processing_error"))
                          = Cardinality(TaskIndices(p) \cap RaisingTasks)
                   /\ Cardinality(ErrorIndices(errs, p, "execution_error"))
                          = Cardinality(TaskIndices(p) \cap FaultingTasks)
            /\ Result.failed = Cardinality(RaisingTasks \cup FaultingTasks)

C5_Witness ==
    /\ Done
    /\ \E k \in 1..Len(Result.errors) : Result.errors[k].type = "processing_error"
    /\ \E k \in 1..Len(Result.errors) : Result.errors[k].type = "execution_error"
    /\ Result.failed = 2

\* Tasks over a file of a supported category whose decoding backend raises.
CorruptTasks ==
    {i \in Tasks : /\ detect_file_type(file_list[i]) \in Categories
                   /\ cond[file_list[i]] = "corrupt"}

\* C6 as stated: a supported file whose decoding backend raises gets an
\* error entry, no record, and is counted in failed.
C6_BackendFailureIsError ==
    Done =>
        /\ \A i \in CorruptTasks :
               /\ \E k \in 1..Len(Result.errors) : Result.errors[k].file = file_list[i]
               /\ RecordIndices(file_list[i]) = {}
        /\ Result.failed >= Cardinality(CorruptTasks)

\* C6 amended: a supported file whose decoding backend raises, its base
\* fields being readable, gets no error entry; each of its tasks adds one
\* record without the backend's fields and is counted in successful, and
\* the batch completes.
C6_BackendFailureIsBaseRecord ==
    Done =>
        /\ \A i \in CorruptTasks :
               LET p == file_list[i]
               IN  /\ \A k \in 1..Len(Result.errors) : Result.errors[k].file # p
                   /\ Cardinality(RecordIndices(p)) = Cardinality(TaskIndices(p))
                   /\ \A k \in RecordIndices(p) : ~results[k].extracted
        /\ Result.successful = N - Cardinality(RaisingTasks \cup FaultingTasks)
        /\ Result.failed = Cardinality(RaisingTasks \cup FaultingTasks)
        /\ collected = Tasks

C6_Witness ==
    /\ Done
    /\ CorruptTasks # {}
    /\ CorruptTasks # Tasks
    /\ Result.failed > 0
    /\ Result.successful = Cardinality(CorruptTasks)
    /\ Len(results) = Cardinality(CorruptTasks)

\* C8 as stated: success_rate equals successful / total_files * 100 exactly
\* (0 when total_files = 0).
C8_RateExact ==
    Done =>
        IF Result.total_files = 0
        THEN success_rate(Result) = 0
        ELSE success_rate(Result) * Result.total_files = Result.successful * 10000

\* C8 amended: success_rate is successful / total_files * 100 rounded to two
\* decimals (the nearest hundredth) when total_files > 0, and 0 when
\* total_files = 0; process_batch([]) returns zero counts and rate 0.
C8_RateRounded ==
    Done =>
        /\ Result.total_files > 0 =>
               2 * Abs(success_rate(Result) * Result.total_files
                       - Result.successful * 10000) <= Result.total_files
        /\ Result.total_files = 0 => success_rate(Result) = 0
        /\ N = 0 => /\ Result.total_files = 0
                    /\ Result.successful = 0
                    /\ Result.failed = 0
                    /\ success_rate(Result) = 0

C8_Witness ==
    /\ Done
    /\ Result.total_files = 3
    /\ Result.successful = 2
    /\ success_rate(Result) = 6667

\* C17: every record of the successful collection, whatever its category,
\* holds the seven base fields with non-null values; a file whose base
\* fields cannot be read gets an error entry and no record.
C17_BaseFieldsPresent ==
    /\ \A k \in 1..Len(results) :
           LET r == results[k]
           IN  /\ r.file_path \in Paths
               /\ r.file_type \in Categories \cup {"unknown"}
               /\ r.file_name # <<>>
               /\ r.file_size # <<>>
               /\ r.mime_type # <<>>
               /\ r.created_date # <<>>
               /\ r.modified_date # <<>>
    /\ Done =>
           \A i \in RaisingTasks :
               /\ RecordIndices(file_list[i]) = {}
               /\ ErrorIndices(Result.errors, file_list[i], "processing_error") # {}

C17_Witness ==
    /\ Done
    /\ N = MaxFiles
    /\ RaisingTasks # {}
    /\ \E k \in 1..Len(results) : results[k].file_type = "unknown"
    /\ Len(results) + Cardinality(RaisingTasks) = N

C20_CompletionOrder ==
    /\ \A i \in collected : task[i] = "finished" /\ future[i] # <<>>
    /\ Len(results) <= Cardinality(collected)
    /\ \A k \in 1..Len(results) :
           \E i \in collected : /\ file_list[i] = results[k].file_path
                                 /\ future[i][1].value = <<results[k]>>
    /\ \A i \in Tasks :
           (pc = "collect" /\ task[i] = "finished" /\ i \notin collected)
               => ENABLED Collect(i)

\* With max_workers >= 2 the second file's record is collected while the
\* first file's task is still running.
C20_Witness ==
    /\ pc = "collect"
    /\ max_workers >= 2
    /\ N >= 2
    /\ file_list[1] # file_list[2]
    /\ task[1] = "running"
    /\ collected = {2}
    /\ Len(results) = 1
    /\ results[1].file_path = file_list[2]

(***************************************************************************)
(* Claims about _process_image and _extract_gps_from_tags                  *)
(***************************************************************************)
ImageDone == img_pc = "done"

\* The field's source tag is present and converts without an exception.
WellFormedSource(key) ==
    IF key = "gps_coordinates"
    THEN _extract_gps_from_tags(tags) # <<>>
    ELSE LET tag == tags[TagOf(key)]
         IN  /\ tag # <<>>
             /\ key \in IntFields \cup DateFields => tag[1] # "malformed"
             /\ key \in RatioFields => Len(tag[1]) >= 1 /\ ~DivisionRaises(tag[1][1])

\* C7: the optional fields are extracted independently: whatever happens to
\* the other fields, every field whose source tag is present and well-formed
\* is a key of the record _process_image returns.
C7_FieldsIndependent ==
    (ImageDone /\ ~exif_raises) =>
        \A k \in 1..Len(FieldOrder) :
            WellFormedSource(FieldOrder[k]) => metadata[FieldOrder[k]] # <<>>

RequiredGpsTags ==
    {"GPS GPSLatitude", "GPS GPSLatitudeRef", "GPS GPSLongitude", "GPS GPSLongitudeRef"}

GpsTagMissing == \E n \in RequiredGpsTags : tags[n] = <<>>

\* A component the normalizer divides has a zero denominator: one of the
\* first three of latitude or longitude, or the first of altitude.
ZeroIn(tag, count) ==
    /\ tag # <<>>
    /\ \E k \in 1..count : k <= Len(tag[1]) /\ tag[1][k].den = 0

GpsZeroDenominator ==
    \/ ZeroIn(tags["GPS GPSLatitude"], 3)
    \/ ZeroIn(tags["GPS GPSLongitude"], 3)
    \/ ZeroIn(tags["GPS GPSAltitude"], 1)

\* C9: when one of the four required GPS tags is missing, or a component the
\* normalizer divides has a zero denominator, the normalizer returns None
\* and the image record has no gps_coordinates key.
C9_GpsAbsent ==
    (GpsTagMissing \/ GpsZeroDenominator) =>
        /\ _extract_gps_from_tags(tags) = <<>>
        /\ gps_data # <<>> => gps_data[1] = <<>>
        /\ metadata["gps_coordinates"] = <<>>

C9_Witness ==
    /\ ImageDone
    /\ ~GpsTagMissing
    /\ GpsZeroDenominator
    /\ gps_data = <<(<<>>)>>
    /\ metadata["gps_coordinates"] = <<>>
    /\ metadata["iso"] # <<>>

\* C10: whenever the image record holds GPS coordinates, the latitude lies
\* in [-90, 90] and the longitude in [-180, 180].
C10_GpsInRange ==
    metadata["gps_coordinates"] # <<>> =>
        LET g == metadata["gps_coordinates"][1]
        IN  /\ g.latitude.den > 0
            /\ g.longitude.den > 0
            /\ Abs(g.latitude.num) <= 90 * g.latitude.den
            /\ Abs(g.longitude.num) <= 180 * g.longitude.den

RECURSIVE GCD(_, _)
GCD(a, b) == IF b = 0 THEN a ELSE GCD(b, a % b)

\* The ratio in lowest terms.
Reduced(r) ==
    LET g == GCD(Abs(r.num), Abs(r.den))
    IN  IF g = 0 THEN r ELSE Ratio(r.num \div g, r.den \div g)

\* value = sign * (d + m/60 + s/3600), for the three ratios d, m, s of a
\* coordinate tag, by cross-multiplication.
IsDecimalDegrees(value, dms, sign) ==
    LET d == dms[1]
        m == dms[2]
        sec == dms[3]
        v == Reduced(value)
    IN  /\ v.den # 0
        /\ v.num * (d.den * m.den * sec.den * 3600)
             = sign * v.den * (3600 * d.num * m.den * sec.den
                               + 60 * m.num * d.den * sec.den
                               + sec.num * d.den * m.den)

\* C11: the latitude and the longitude of the record are each computed from
\* the three ratios of their own tag as degrees + minutes/60 + seconds/3600;
\* the latitude is negated exactly when the latitude reference is 'S', the
\* longitude exactly when the longitude reference is 'W'; any other
\* reference leaves the value as computed.
C11_GpsDecimalDegrees ==
    metadata["gps_coordinates"] # <<>> =>
        LET g == metadata["gps_coordinates"][1]
            lat == tags["GPS GPSLatitude"][1]
            lon == tags["GPS GPSLongitude"][1]
            lat_ref == tags["GPS GPSLatitudeRef"][1]
            lon_ref == tags["GPS GPSLongitudeRef"][1]
        IN  /\ IsDecimalDegrees(g.latitude, lat, IF lat_ref = "S" THEN -1 ELSE 1)
            /\ IsDecimalDegrees(g.longitude, lon, IF lon_ref = "W" THEN -1 ELSE 1)

C11_Witness ==
    /\ ImageDone
    /\ metadata["gps_coordinates"] # <<>>
    /\ tags["GPS GPSLatitudeRef"] = <<"S">>
    /\ tags["GPS GPSLongitudeRef"] = <<"S">>
    /\ tags["GPS GPSLatitude"][1][1] = Ratio(181, 2)
    /\ metadata["gps_coordinates"][1].latitude.num < 0
    /\ metadata["gps_coordinates"][1].longitude.num > 0

(***************************************************************************)
(* Claims about detect_file_type                                           *)
(***************************************************************************)
\* The two characters are the same letter in either case, or the same
\* character.
SameIgnoringCase(x, y) ==
    \/ x = y
    \/ IndexIn(x, UpperCase) # 0 /\ IndexIn(x, UpperCase) = IndexIn(y, LowerCase)
    \/ IndexIn(x, LowerCase) # 0 /\ IndexIn(x, LowerCase) = IndexIn(y, UpperCase)

\* The last component of p is a non-empty stem followed by e in some
\* spelling.
HasExtension(p, e) ==
    LET name == Name(p)
        off == Len(name) - Len(e)
    IN  /\ off > 0
        /\ \A k \in 1..Len(e) : SameIgnoringCase(Char(name, off + k), Char(e, k))

InvalidRoot == ~exists(path) \/ ~is_dir(path)
ScanDone == scan_pc = "done"
Found == Range(scan_ret[1])

\* C13: a path that does not exist, or exists and is no directory, makes
\* scan_directory fail with the invalid-path error (the ValueError of lines
\* 99 and 102) before anything is searched, and no list is returned; no
\* other path makes it fail.
C13_InvalidPathFailsFast ==
    /\ (InvalidRoot /\ scan_pc # "call") =>
           /\ scan_pc = "raised"
           /\ scan_exc = <<"ValueError">>
           /\ files = <<>>
           /\ scan_ret = <<>>
    /\ scan_pc = "raised" => InvalidRoot

C13_Witness ==
    /\ scan_pc = "raised"
    /\ path \in fs
    /\ Cardinality(fs) = MaxEntries
    /\ scan_exc # <<>>

\* C14: the list scan_directory returns is strictly ascending (sorted, no
\* path twice) even when a path is found by more than one pattern, and a
\* second scan of the unchanged tree returns the same list.
C14_SortedDistinctStable ==
    ScanDone =>
        LET r == scan_ret[1]
        IN  /\ \A k \in 1..(Len(r) - 1) : StrLess(r[k], r[k + 1])
            /\ (scan_prev # <<>> /\ scan_prev[1].recursive = recursive) =>
                   r = scan_prev[1].value

C14_Witness ==
    /\ ScanDone
    /\ scan_prev # <<>>
    /\ scan_prev[1].recursive = recursive
    /\ scan_prev[1].listing # listing
    /\ Len(files) > Len(scan_ret[1])
    /\ Len(scan_ret[1]) = MaxEntries

\* The entry is found by one of the patterns of the selected extensions.
Wanted(e) ==
    \E ext \in Range(extensions(file_types)) :
        fnmatch(Name(e), "*" \o ext) \/ fnmatch(Name(e), "*" \o Upper(ext))

\* C15: with recursive = False the result holds the matching entries of
\* the root directory itself and no other; with recursive = True the
\* matching entries of the whole subtree; the non-recursive result of a
\* root is a subset of its recursive result.
C15_RecursiveScope ==
    ScanDone =>
        /\ ~recursive => Found = {e \in Entries : Parent(e) = path /\ Wanted(e)}
        /\ recursive => Found = {e \in Entries : StartsWith(e, path \o "/") /\ Wanted(e)}
        /\ (scan_prev # <<>> /\ ~scan_prev[1].recursive /\ recursive) =>
               Range(scan_prev[1].value) \subseteq Found

C15_Witness ==
    /\ ScanDone
    /\ recursive
    /\ scan_prev # <<>>
    /\ ~scan_prev[1].recursive
    /\ scan_prev[1].value # <<>>
    /\ Len(scan_prev[1].value) < Len(scan_ret[1])
    /\ \E e \in Found : Parent(e) # path

\* The categories the scan selects: those of file_types, all when it is None.
SelectedCategories ==
    IF file_types = <<>> THEN Categories ELSE Range(file_types[1]) \cap Categories

\* The file is where the scan looks.
InScope(p) ==
    IF recursive THEN StartsWith(p, path \o "/") ELSE Parent(p) = path

\* C16: every file in the scanned scope whose extension equals, ignoring
\* case, an extension of a selected category is in the result, however the
\* extension is spelled and whether or not names are matched by case.
C16_CaseInsensitiveMatch ==
    ScanDone =>
        \A p \in fs :
            (/\ InScope(p)
             /\ \E c \in SelectedCategories : \E e \in Range(SUPPORTED_EXTENSIONS[c]) :
                    HasExtension(p, e))
            => p \in Found

(***************************************************************************)
(* Claims about _process_audio and _process_document                       *)
(***************************************************************************)
\* C19: a category-specific field is a key of the record only when the
\* extractor got a value for it: a missing frame or property leaves the key
\* out, it is never a key that holds None.
C19_KeyOnlyWithValue ==
    ext_pc = "done" =>
        \A k \in ExtKeys : ext_md[k] # <<>> => ext_md[k][1] # <<>>

(***************************************************************************)
(* Claims about the scheduling of process_batch                            *)
(***************************************************************************)
InBatch == pc \in {"submit", "collect"}
Resolved == {i \in Tasks : task[i] = "finished"}
ErrorsOf(errs, p) == {k \in 1..Len(errs) : errs[k].file = p}

\* C21: once called, process_batch eventually returns (every extractor call
\* that starts terminates), and the step that returns is taken only when
\* every submitted task has resolved and has been collected: no task is
\* queued or running at the return.
C21_ReturnsAfterAllResolved ==
    /\ InBatch ~> Done
    /\ [][(InBatch /\ pc' = "done") =>
              (submitted = N /\ Resolved = Tasks /\ collected = Tasks)]_vars

C21_Witness ==
    /\ Done
    /\ N = MaxFiles
    /\ max_workers < N
    /\ Resolved = Tasks
    /\ RaisingTasks # {}
    /\ FaultingTasks # {}

\* C22: one task is submitted per element of file_list, in order; no result
\* is collected before the last task is submitted; at most max_workers
\* tasks are running at any moment.
C22_SubmitAllBoundedPool ==
    /\ Len(task) = N
    /\ submitted <= N
    /\ \A i \in Tasks : (task[i] = "unsubmitted") <=> (i > submitted)
    /\ pc \in {"collect", "done"} => submitted = N
    /\ collected # {} => submitted = N
    /\ Cardinality(Running) <= max_workers

C22_Witness ==
    /\ pc = "collect"
    /\ max_workers = 2
    /\ Cardinality(Running) = max_workers
    /\ Queued # {}
    /\ collected = {}

\* C25: when a batch over distinct paths returns, each submitted path is
\* found exactly once across the two collectors: as one record if its
\* extraction returned, as one error entry if it raised; and at no moment
\* of the batch is a path found twice.
C25_EachPathOnce ==
    NoDuplicates(file_list) =>
        /\ \A i \in Tasks :
               Cardinality(RecordIndices(file_list[i]))
                   + Cardinality(ErrorsOf(errors, file_list[i])) <= 1
        /\ Done =>
               \A i \in Tasks :
                   LET r == Cardinality(RecordIndices(file_list[i]))
                       e == Cardinality(ErrorsOf(Result.errors, file_list[i]))
                   IN  /\ r + e = 1
                       /\ (e = 1) <=> (i \in RaisingTasks \cup FaultingTasks)

C25_Witness ==
    /\ Done
    /\ NoDuplicates(file_list)
    /\ N = 2
    /\ max_workers >= 2
    /\ Cardinality(RaisingTasks) = 1
    /\ Len(results) = 1
    /\ Len(Result.errors) = 1

\* C30: throughout the collection loop successful + failed is the number of
\* futures collected so far, at most len(file_list), and len(results) is
\* successful; within a call neither counter decreases; the returned
\* BatchResult has successful + failed = total_files.
C30_CountersTrackCollected ==
    /\ [](/\ successful + failed = Cardinality(collected)
          /\ successful + failed <= N
          /\ Len(results) = successful
          /\ Done => Result.successful + Result.failed = Result.total_files)
    /\ [][InBatch => (successful' >= successful /\ failed' >= failed)]_vars

C30_Witness ==
    /\ pc = "collect"
    /\ N = MaxFiles
    /\ successful = 1
    /\ failed = 1
    /\ Cardinality(collected) = 2
    /\ FaultingTasks # {}

\* C26: the progress bar is advanced once for each collected future, failed
\* or not: while it is shown its count is the number of futures collected
\* so far, it grows by one with each of them and never otherwise, and it
\* is len(file_list) at the return. Shown or not, the returned counts, the
\* error entries and the records are the ones the files' conditions
\* determine.
C26_ProgressPerTask ==
    /\ [](/\ show_progress => progress = Cardinality(collected)
          /\ ~show_progress => progress = 0
          /\ (Done /\ show_progress) => progress = N
          /\ Done =>
                LET failing == RaisingTasks \cup FaultingTasks
                IN  /\ Result.successful = N - Cardinality(failing)
                    /\ Result.failed = Cardinality(failing)
                    /\ Len(Result.errors) = Cardinality(failing)
                    /\ Len(results) = N - Cardinality(failing)
                    /\ \A i \in Tasks :
                           (i \in failing) <=> (ErrorsOf(Result.errors, file_list[i]) # {})
                    /\ \A i \in Tasks :
                           (i \notin failing) <=> (RecordIndices(file_list[i]) # {}))
    /\ [][InBatch =>
              /\ progress' >= progress
              /\ (show_progress /\ collected' # collected) => progress' = progress + 1
              /\ collected' = collected => progress' = progress]_vars

C26_Witness ==
    /\ Done
    /\ show_progress
    /\ N = MaxFiles
    /\ progress = N
    /\ FaultingTasks # {}
    /\ Result.successful = 1
    /\ Result.failed = 2

\* C23: the collectors are scoped to one batch. The step that starts a
\* call leaves both collectors empty; during the call and at its return
\* every record and every error entry belongs to a path of this call's
\* file_list; at the return each path has exactly as many records and
\* entries as it has tasks in this call (one entry per failing task: no
\* second attempt, nothing of an earlier batch or process_file call).
C23_BatchScoped ==
    /\ [][(pc \in {"idle", "done"} /\ pc' \in {"submit", "collect"}) =>
              (results' = <<>> /\ errors' = <<>>)]_vars
    /\ [](pc \in {"submit", "collect", "done"} =>
            /\ \A k \in 1..Len(results) : results[k].file_path \in Range(file_list)
            /\ InBatch => \A k \in 1..Len(errors) : errors[k].file \in Range(file_list))
    /\ [](Done =>
            /\ \A k \in 1..Len(Result.errors) :
                   Result.errors[k].file \in Range(file_list)
            /\ \A p \in Paths :
                   LET failing == TaskIndices(p) \cap (RaisingTasks \cup FaultingTasks)
                   IN  /\ Cardinality(ErrorsOf(Result.errors, p)) = Cardinality(failing)
                       /\ Cardinality(RecordIndices(p))
                              = Cardinality(TaskIndices(p) \ failing))

C23_Witness ==
    /\ Done
    /\ prev # <<>>
    /\ prev[1].n_records > 0
    /\ prev[1].n_errors > 1
    /\ ~(prev[1].paths \subseteq Range(file_list))
    /\ N = 1
    /\ Len(results) = 1
    /\ Result.errors = <<>>

\* C27: a process_batch call that runs while another call is made on the
\* same aggregator returns a BatchResult of its own batch only: its errors
\* hold exactly one entry per failing task of its file_list, len(errors)
\* is its failed count, and successful + failed is len(file_list).
C27_OwnBatchOnly ==
    Done =>
        /\ \A p \in Paths :
               Cardinality(ErrorsOf(Result.errors, p))
                   = Cardinality(TaskIndices(p) \cap (RaisingTasks \cup FaultingTasks))
        /\ Len(Result.errors) = Result.failed
        /\ Result.successful + Result.failed = N

(***************************************************************************)
(* MetadataDatabase (src/core/data_storage.py): insert_file, insert_batch  *)
(* and delete_file on the files table and the type-specific metadata       *)
(* tables.                                                                 *)
(*                                                                         *)
(* `db` is the committed content: files is the set of rows of the files    *)
(* table, meta the rows of the four metadata tables in insertion order,    *)
(* seq the files entry of sqlite_sequence (the largest id handed out).     *)
(* The schema declares FOREIGN KEY ... ON DELETE CASCADE; SQLite acts on   *)
(* it only on a connection that enforces foreign keys, which is a default  *)
(* of the SQLite build (off unless built otherwise); the code never sets   *)
(* PRAGMA foreign_keys. `foreign_keys` is that default.                    *)
(***************************************************************************)
MaxIds == 3        \* most ids the files table hands out

DbPaths == {"a.jpg", "b.mp3"}

\* insert_file's dispatch on file_type, lines 217-226.
TableOf(file_type) ==
    CASE file_type = "image" -> <<"image_metadata">>
      [] file_type = "video" -> <<"video_metadata">>
      [] file_type = "audio" -> <<"audio_metadata">>
      [] file_type = "document" -> <<"document_metadata">>
      [] OTHER -> <<>>

\* The metadata dicts handed to insert_file. `bindable` tells whether every
\* type-specific value is one sqlite3 can bind as a parameter.
DbRecords ==
    {md \in [file_path : DbPaths, file_type : {"image", "audio", "text"},
             bindable : BOOLEAN] :
        TableOf(md.file_type) = <<>> => md.bindable}

DbBatches ==
    {<<>>} \cup {<<md>> : md \in DbRecords}
           \cup {<<m1, m2>> : m1 \in DbRecords, m2 \in DbRecords}

RECURSIVE Without(_, _)
Without(rows, ids) ==
    IF rows = <<>> THEN <<>>
    ELSE IF Head(rows).file_id \in ids THEN Without(Tail(rows), ids)
    ELSE <<Head(rows)>> \o Without(Tail(rows), ids)

\* Rows of the files table are deleted; their metadata rows go with them
\* only where the foreign keys are enforced.
DeleteFiles(d, ids) ==
    [files |-> {r \in d.files : r.id \notin ids},
     meta |-> IF foreign_keys THEN Without(d.meta, ids) ELSE d.meta,
     seq |-> d.seq]

\* Lines 200-214: INSERT OR REPLACE INTO files, cursor.lastrowid. file_path
\* is UNIQUE: a row with the same file_path is deleted and the new row gets
\* the next id.
InsertOrReplace(d, md) ==
    LET old == {r.id : r \in {x \in d.files : x.file_path = md.file_path}}
        kept == DeleteFiles(d, old)
        file_id == d.seq + 1
    IN  [db |-> [kept EXCEPT !.files = @ \cup {[id |-> file_id,
                                                 file_path |-> md.file_path,
                                                 file_type |-> md.file_type]},
                             !.seq = file_id],
         lastrowid |-> file_id]

\* Lines 217-226 with _insert_image_metadata ... _insert_document_metadata.
InsertMetadata(d, file_id, md) ==
    IF TableOf(md.file_type) = <<>>
    THEN [raised |-> FALSE, db |-> d]
    ELSE IF ~md.bindable
         THEN [raised |-> TRUE, db |-> d]
         ELSE [raised |-> FALSE,
               db |-> [d EXCEPT !.meta = Append(@, [table |-> TableOf(md.file_type)[1],
                                                    file_id |-> file_id])]]

\* Mutant: the handler of get_connection commits what was written.
rollback_keeping_writes(before, written) == written

\* get_connection, lines 46-58: conn.rollback() in the except branch.
rollback(before, written) == before

\* insert_file, lines 186-229, inside `with self.get_connection()`.
insert_file(d, md) ==
    LET f == InsertOrReplace(d, md)
        m == InsertMetadata(f.db, f.lastrowid, md)
    IN  IF m.raised
        THEN [raised |-> TRUE, db |-> rollback(d, m.db), ret |-> <<>>]
        ELSE [raised |-> FALSE, db |-> m.db, ret |-> <<f.lastrowid>>]

\* insert_batch, lines 332-349: a record whose insert_file raises is skipped.
RECURSIVE insert_batch(_, _)
insert_batch(d, metadata_list) ==
    IF metadata_list = <<>> THEN [db |-> d, ret |-> <<>>]
    ELSE LET o == insert_file(d, Head(metadata_list))
             rest == insert_batch(o.db, Tail(metadata_list))
         IN  [db |-> rest.db, ret |-> o.ret \o rest.ret]

\* delete_file, lines 559-564: DELETE FROM files WHERE id = ?.
delete_file(d, file_id) ==
    [db |-> DeleteFiles(d, {file_id}),
     ret |-> {r \in d.files : r.id = file_id} # {}]

DbCall(op, input, file_id, raised, ids, deleted) ==
    <<[op |-> op, input |-> input, file_id |-> file_id, raised |-> raised,
       ret |-> ids, deleted |-> deleted]>>

InsertFile ==
    /\ db.seq < MaxIds
    /\ \E md \in DbRecords :
           LET o == insert_file(db, md)
           IN  /\ db' = o.db
               /\ db_call' = DbCall("insert_file", <<md>>, 0, o.raised, o.ret, FALSE)
    /\ UNCHANGED <<batch_vars, caller_vars, image_vars, detect_vars, scan_vars,
                   tag_vars, foreign_keys>>

InsertBatch ==
    /\ \E metadata_list \in DbBatches :
           /\ db.seq + Len(metadata_list) <= MaxIds
           /\ LET o == insert_batch(db, metadata_list)
              IN  /\ db' = o.db
                  /\ db_call' = DbCall("insert_batch", metadata_list, 0, FALSE, o.ret, FALSE)
    /\ UNCHANGED <<batch_vars, caller_vars, image_vars, detect_vars, scan_vars,
                   tag_vars, foreign_keys>>

DeleteFile ==
    /\ \E file_id \in 1..MaxIds :
           LET o == delete_file(db, file_id)
           IN  /\ db' = o.db
               /\ db_call' = DbCall("delete_file", <<>>, file_id, FALSE, <<>>, o.ret)
    /\ UNCHANGED <<batch_vars, caller_vars, image_vars, detect_vars, scan_vars,
                   tag_vars, foreign_keys>>

InitDb ==
    /\ cond = [p \in Paths |-> "ok"]
    /\ BatchIdle
    /\ CallerIdle
    /\ foreign_keys \in BOOLEAN
    /\ db = EmptyDb
    /\ db_call = <<>>
    /\ ImageIdle
    /\ DetectIdle
    /\ ScanIdle
    /\ TagIdle

NextDb ==
    \/ InsertFile
    \/ InsertBatch
    \/ DeleteFile

SpecDb == InitDb /\ [][NextDb]_vars

\* SpecInsert: the database is only inserted into.
NextInsert ==
    \/ InsertFile
    \/ InsertBatch

SpecInsert == InitDb /\ [][NextInsert]_vars

(***************************************************************************)
(* Claims about MetadataDatabase                                           *)
(***************************************************************************)
LastCall == db_call[1]
Called(op) == db_call # <<>> /\ LastCall.op = op
MetaOf(file_id) == {k \in 1..Len(db.meta) : db.meta[k].file_id = file_id}
Unwritable(md) == TableOf(md.file_type) # <<>> /\ ~md.bindable

\* C24: after delete_file(file_id) has returned True no files row has that
\* id and no row of a metadata table has it as file_id.
C24_DeleteRemovesMetadata ==
    (Called("delete_file") /\ LastCall.deleted) =>
        /\ \A r \in db.files : r.id # LastCall.file_id
        /\ MetaOf(LastCall.file_id) = {}

\* C28: after any sequence of insert_file and insert_batch calls the files
\* table has one row per file_path, every metadata row refers to a files
\* row, and a files row has at most one row in the table of its category.
C28_NoStaleMetadata ==
    /\ \A r1, r2 \in db.files : r1.file_path = r2.file_path => r1 = r2
    /\ \A k \in 1..Len(db.meta) : \E r \in db.files : r.id = db.meta[k].file_id
    /\ \A r \in db.files :
           Cardinality({k \in MetaOf(r.id) :
                           <<db.meta[k].table>> = TableOf(r.file_type)}) <= 1

\* C29: insert_file raises exactly when the metadata row cannot be written,
\* and the step of a call that raised leaves the database as it was; a call
\* that returned left a files row with the returned id; insert_batch does
\* not raise, returns one id per record that could be written, and a batch
\* of unwritable records leaves the database as it was.
C29_InsertAtomic ==
    /\ [][(Called("insert_file")' /\ LastCall'.raised) => db' = db]_vars
    /\ [][(Called("insert_batch")'
             /\ \A k \in 1..Len(LastCall'.input) : Unwritable(LastCall'.input[k]))
            => db' = db]_vars
    /\ [](Called("insert_file") =>
            /\ LastCall.raised <=> Unwritable(LastCall.input[1])
            /\ LastCall.raised => LastCall.ret = <<>>
            /\ ~LastCall.raised =>
                   /\ Len(LastCall.ret) = 1
                   /\ \E r \in db.files :
                          /\ r.id = LastCall.ret[1]
                          /\ r.file_path = LastCall.input[1].file_path)
    /\ [](Called("insert_batch") =>
            LET written == {k \in 1..Len(LastCall.input) : ~Unwritable(LastCall.input[k])}
            IN  /\ Len(LastCall.ret) = Cardinality(written)
                /\ NoDuplicates(LastCall.ret)
                /\ written # {} => \E r \in db.files : r.id = LastCall.ret[Len(LastCall.ret)])

C29_Witness ==
    /\ Called("insert_batch")
    /\ Len(LastCall.input) = 2
    /\ Unwritable(LastCall.input[1])
    /\ ~Unwritable(LastCall.input[2])
    /\ Len(LastCall.ret) = 1
    /\ db.seq > 1
    /\ \A r \in db.files : r.file_path # LastCall.input[1].file_path

====
